---------------------------- MODULE Spec2Model ----------------------------
(***************************************************************************)
(* State-machine models of the programs of the learning-rust workspace     *)
(* that carry behaviour: minigrep (search, search_case_insensitive,        *)
(* Config::new, run, main), the Mutex/Arc counter, the mpsc                *)
(* producer/consumer program and the Guess::new range guard.               *)
(*                                                                         *)
(* The programs are independent binaries.  Each has its own variables and  *)
(* its own specification; a specification leaves the variables of the      *)
(* other programs at their idle values.                                    *)
(*                                                                         *)
(* A Rust String is a sequence of characters, each character a one-element *)
(* TLA+ string.  "LF" is '\n', "CR" is '\r', "SIGMA" is U+03A3, "sigma" is *)
(* U+03C3 and "fsigma" is U+03C2 (final sigma).                            *)
(***************************************************************************)
EXTENDS Integers, Sequences, FiniteSets, TLC

VARIABLES
    \* minigrep search functions called directly (src/minigrep/src/lib.rs)
    sQuery, sContents, sPc, sResult,
    \* minigrep binary (src/minigrep/src/main.rs, src/minigrep/src/lib.rs)
    args, envIgnoreCase, disk, gPc, cfgResult, runResult, stdout, stderr,
    exitStatus, fileReads,
    \* Mutex/Arc counter (src/mutex_arc/src/main.rs)
    mCounter, mHolders, mPoisoned, mMainPc, mSpawned, mJoined, tPc, tTmp,
    mPrinted,
    \* mpsc producers and consumer (src/message/src/main.rs)
    chQueue, txAlive, rxAlive, pPc, pIdx, pTx, cMainPc, received,
    \* Guess::new (src/adder/src/lib.rs, src/panic_or_not/src/main.rs)
    guessValue, guessPc, guessOutcome,
    \* the guessing game (src/guessing_game/src/main.rs)
    ggSecret, ggPc, ggLine, ggGuess, ggParsed, ggReads, ggOut,
    \* LimitTracker with its mock messenger (src/refcell/src/lib.rs)
    ltPc, ltMax, ltValue, ltSent, ltLastSent, ltCalls,
    \* the Rc/Weak tree (src/pointer_weak/src/main.rs)
    wPc, rcStrong, rcWeak, rcLive, leafParent, wUpgrade, wPrinted,
    \* the joined thread example (src/threads/src/main.rs)
    thMainPc, thMainI, thSpPc, thSpI, thSpPrinted, thMainPrinted,
    \* Rectangle::can_hold, add_two, greeting (src/adder/src/lib.rs)
    rPc, rA, rB, rCalled, rAB, rBA, atPc, atA, atChecks, atOutcome, grPc, grName, grResult

searchVars == <<sQuery, sContents, sPc, sResult>>
grepVars == <<args, envIgnoreCase, disk, gPc, cfgResult, runResult, stdout,
              stderr, exitStatus, fileReads>>
mutexVars == <<mCounter, mHolders, mPoisoned, mMainPc, mSpawned, mJoined, tPc,
               tTmp, mPrinted>>
mpscVars == <<chQueue, txAlive, rxAlive, pPc, pIdx, pTx, cMainPc, received>>
guessVars == <<guessValue, guessPc, guessOutcome>>
gameVars == <<ggSecret, ggPc, ggLine, ggGuess, ggParsed, ggReads, ggOut>>
trackerVars == <<ltPc, ltMax, ltValue, ltSent, ltLastSent, ltCalls>>
weakVars == <<wPc, rcStrong, rcWeak, rcLive, leafParent, wUpgrade, wPrinted>>
threadsVars == <<thMainPc, thMainI, thSpPc, thSpI, thSpPrinted,
                 thMainPrinted>>
adderVars == <<rPc, rA, rB, rCalled, rAB, rBA, atPc, atA, atChecks, atOutcome,
               grPc, grName, grResult>>
vars == <<searchVars, grepVars, mutexVars, mpscVars, guessVars, gameVars,
          trackerVars, weakVars, threadsVars, adderVars>>

(***************************************************************************)
(* Bounds of the model.                                                    *)
(***************************************************************************)
MaxContentsLen == 3
MaxArgs == 4
GuessSpan == 30
MaxLineLen == 2
MaxReads == 3
MaxQuota == 20
MaxCalls == 2
MaxSide == 3
AddSpan == 20
MaxNameLen == 3

(***************************************************************************)
(* Strings.                                                                *)
(***************************************************************************)
RECURSIVE StringsOfLen(_, _)
StringsOfLen(chars, n) ==
    IF n = 0 THEN {<<>>}
    ELSE {Append(s, c) : s \in StringsOfLen(chars, n - 1), c \in chars}

StringsUpTo(chars, n) == UNION {StringsOfLen(chars, k) : k \in 0..n}

\* str::strip_suffix('\r') as used by str::lines.
StripCR(line) ==
    IF Len(line) > 0 /\ line[Len(line)] = "CR"
    THEN SubSeq(line, 1, Len(line) - 1)
    ELSE line

\* str::lines(): split after every '\n'; a segment that ends in '\n' loses it
\* and then a '\r' before it; the last segment is a line only when non-empty.
RECURSIVE LinesFrom(_, _, _)
LinesFrom(rest, cur, acc) ==
    IF rest = <<>> THEN (IF cur = <<>> THEN acc ELSE Append(acc, cur))
    ELSE IF Head(rest) = "LF"
         THEN LinesFrom(Tail(rest), <<>>, Append(acc, StripCR(cur)))
         ELSE LinesFrom(Tail(rest), Append(cur, Head(rest)), acc)

Lines(contents) == LinesFrom(contents, <<>>, <<>>)

\* str::contains(&str): the pattern occurs at some offset.
Contains(hay, needle) ==
    \E i \in 1..(Len(hay) - Len(needle) + 1) :
        SubSeq(hay, i, i + Len(needle) - 1) = needle

\* Unicode property Cased, restricted to the characters of the model.
Cased(c) == c \in {"a", "A", "SIGMA", "sigma", "fsigma"}

\* Unicode property Case_Ignorable, restricted to the characters of the model.
CaseIgnorable(c) == c \in {"'"}

\* case_ignorable_then_cased of str::to_lowercase: skip the case-ignorable
\* characters, then ask whether the next one is cased.
RECURSIVE CaseIgnorableThenCased(_)
CaseIgnorableThenCased(s) ==
    IF s = <<>> THEN FALSE
    ELSE IF CaseIgnorable(Head(s)) THEN CaseIgnorableThenCased(Tail(s))
         ELSE Cased(Head(s))

Reverse(s) == [i \in 1..Len(s) |-> s[Len(s) + 1 - i]]

\* map_uppercase_sigma of str::to_lowercase: U+03A3 at position i of s is
\* word-final when a cased letter precedes it and none follows it.
MapUppercaseSigma(s, i) ==
    IF /\ CaseIgnorableThenCased(Reverse(SubSeq(s, 1, i - 1)))
       /\ ~CaseIgnorableThenCased(SubSeq(s, i + 1, Len(s)))
    THEN "fsigma"
    ELSE "sigma"

\* char::to_lowercase for every character but U+03A3.
ToLowerChar(c) ==
    CASE c = "A" -> "a"
      [] OTHER -> c

\* str::to_lowercase.
ToLowercase(s) ==
    [i \in 1..Len(s) |->
        IF s[i] = "SIGMA" THEN MapUppercaseSigma(s, i) ELSE ToLowerChar(s[i])]

(***************************************************************************)
(* minigrep: the two search functions.                                     *)
(***************************************************************************)
\* search with the receiver and the argument of contains exchanged.
searchExchanged(query, contents) ==
    SelectSeq(Lines(contents), LAMBDA line : Contains(query, line))

\* search: contents.lines().filter(|line| line.contains(query)).collect()
search(query, contents) ==
    SelectSeq(Lines(contents), LAMBDA line : Contains(line, query))

\* The for loop of search_case_insensitive over the remaining lines.
RECURSIVE SearchCILoop(_, _, _)
SearchCILoop(query, lines, results) ==
    IF lines = <<>> THEN results
    ELSE SearchCILoop(query, Tail(lines),
            IF Contains(ToLowercase(Head(lines)), query)
            THEN Append(results, Head(lines))
            ELSE results)

\* search_case_insensitive: the query is lower-cased once, then the loop.
search_case_insensitive(query, contents) ==
    SearchCILoop(ToLowercase(query), Lines(contents), <<>>)

(***************************************************************************)
(* Direct calls of the two search functions, as the unit tests make them:  *)
(* the inputs are drawn in the initial state, one call is made.            *)
(***************************************************************************)
\* The characters of the contents and of the query of a direct call.
SearchChars == {"a", "A", "SIGMA", "sigma", "fsigma", "LF", "CR"}
QueryChars == {"a", "A", "SIGMA", "fsigma", "LF"}

SearchIdle ==
    /\ sQuery = <<>>
    /\ sContents = <<>>
    /\ sPc = "idle"
    /\ sResult = <<>>

SearchInit ==
    /\ sQuery \in StringsUpTo(QueryChars, MaxContentsLen - 1)
    /\ sContents \in StringsUpTo(SearchChars, MaxContentsLen)
    /\ sPc = "ready"
    /\ sResult = <<>>

CallSearch ==
    /\ sPc = "ready"
    /\ sResult' = search(sQuery, sContents)
    /\ sPc' = "search"
    /\ UNCHANGED <<sQuery, sContents>>

CallSearchCaseInsensitive ==
    /\ sPc = "ready"
    /\ sResult' = search_case_insensitive(sQuery, sContents)
    /\ sPc' = "search_ci"
    /\ UNCHANGED <<sQuery, sContents>>

(***************************************************************************)
(* minigrep: Config::new, run and main.                                    *)
(***************************************************************************)
\* The states of the IGNORE_CASE entry of the process environment.
EnvStates == {"unset", "set_empty", "set_1", "set_not_unicode"}

\* env::var: Ok for a variable that is set to valid Unicode, Err(NotPresent)
\* for one that is not set, Err(NotUnicode) for one whose value is not valid
\* Unicode.
EnvVar(e) ==
    CASE e = "unset" -> "Err(NotPresent)"
      [] e = "set_not_unicode" -> "Err(NotUnicode)"
      [] OTHER -> "Ok"

\* Result::is_ok on the value of env::var.
IsOk(r) == r = "Ok"

NoConfig == [query |-> <<>>, filename |-> <<>>, ignore_case |-> FALSE]

Ok(config) == [tag |-> "Ok", err |-> "", config |-> config]
Err(msg) == [tag |-> "Err", err |-> msg, config |-> NoConfig]
Panicked == [tag |-> "Panic", err |-> "", config |-> NoConfig]
NotCalled == [tag |-> "None", err |-> "", config |-> NoConfig]

\* Iterator::next on the rest of an iterator: the rest after the item,
\* unchanged when the iterator is exhausted.
AfterNext(it) == IF it = <<>> THEN <<>> ELSE Tail(it)

\* The slice version of Config::new without its length check: indexing past
\* the end panics.
ConfigNewIndexed(a, e) ==
    IF Len(a) < 3 THEN Panicked
    ELSE Ok([query |-> a[2], filename |-> a[3],
             ignore_case |-> IsOk(EnvVar(e))])

\* Config::new with the is_ok test inverted.
ConfigNewInverted(a, e) ==
    LET it1 == AfterNext(a)
        it2 == AfterNext(it1)
    IN  IF it1 = <<>> THEN Err("Didn't get a query string")
        ELSE IF it2 = <<>> THEN Err("Didn't get a file name")
        ELSE Ok([query |-> Head(it1), filename |-> Head(it2),
                 ignore_case |-> ~IsOk(EnvVar(e))])

\* Config::new over the argument iterator a and the environment entry e.
ConfigNew(a, e) ==
    LET it1 == AfterNext(a)
        it2 == AfterNext(it1)
    IN  IF it1 = <<>> THEN Err("Didn't get a query string")
        ELSE IF it2 = <<>> THEN Err("Didn't get a file name")
        ELSE Ok([query |-> Head(it1), filename |-> Head(it2),
                 ignore_case |-> IsOk(EnvVar(e))])

\* The one path under which the disk may hold a file.
GrepFileName == <<"f">>

\* fs::read_to_string: the text of the file, or an error when there is no
\* file of that name or its bytes are not valid UTF-8.
ReadToString(d, filename) ==
    IF filename = GrepFileName /\ d.kind = "text"
    THEN [tag |-> "Ok", text |-> d.text]
    ELSE [tag |-> "Err", text |-> <<>>]

\* A command-line argument that is not valid Unicode.
NotUnicodeArg == <<"NOT_UNICODE">>

ArgStrings == {<<"a">>, <<"SIGMA">>, GrepFileName, NotUnicodeArg}

\* The items env::args() yields before Config::new stops calling next: at most
\* three.
Consumed(a) == SubSeq(a, 1, IF Len(a) < 3 THEN Len(a) ELSE 3)

\* Args::next panics on an argument that is not valid Unicode.
ArgsPanic(a) == \E i \in DOMAIN Consumed(a) : a[i] = NotUnicodeArg

GrepTexts ==
    { <<>>,
      <<"A", "LF", "a", "LF">>,
      <<"a", "SIGMA", "LF", "f", "LF", "sigma">> }

DiskStates ==
    {[kind |-> "missing", text |-> <<>>], [kind |-> "not_utf8", text |-> <<>>]}
    \cup {[kind |-> "text", text |-> t] : t \in GrepTexts}

GrepIdle ==
    /\ args = <<>>
    /\ envIgnoreCase = "unset"
    /\ disk = [kind |-> "missing", text |-> <<>>]
    /\ gPc = "idle"
    /\ cfgResult = NotCalled
    /\ runResult = "None"
    /\ stdout = <<>>
    /\ stderr = <<>>
    /\ exitStatus = <<>>
    /\ fileReads = 0

GrepInit ==
    /\ args \in StringsUpTo(ArgStrings, MaxArgs)
    /\ envIgnoreCase \in EnvStates
    /\ disk \in DiskStates
    /\ gPc = "start"
    /\ cfgResult = NotCalled
    /\ runResult = "None"
    /\ stdout = <<>>
    /\ stderr = <<>>
    /\ exitStatus = <<>>
    /\ fileReads = 0

\* main: let config = Config::new(env::args()); env::args() panics during
\* iteration on an argument that is not valid Unicode (main.rs, line 23).
MainConfigNew ==
    /\ gPc = "start"
    /\ IF ArgsPanic(args)
       THEN /\ gPc' = "panicked"
            /\ stderr' = Append(stderr, <<"thread 'main' panicked", "">>)
            /\ exitStatus' = <<101>>
            /\ UNCHANGED cfgResult
       ELSE /\ cfgResult' = ConfigNew(args, envIgnoreCase)
            /\ gPc' = "unwrap_or_else"
            /\ UNCHANGED <<stderr, exitStatus>>
    /\ UNCHANGED <<args, envIgnoreCase, disk, runResult, stdout, fileReads>>

\* main's unwrap_or_else without the process::exit of its closure.
MainUnwrapOrElseNoExit ==
    /\ gPc = "unwrap_or_else"
    /\ cfgResult.tag # "Panic"
    /\ IF cfgResult.tag = "Ok"
       THEN UNCHANGED stderr
       ELSE stderr' = Append(stderr, <<"Problem parsing argument: ", cfgResult.err>>)
    /\ gPc' = "run"
    /\ UNCHANGED <<args, envIgnoreCase, disk, cfgResult, runResult, stdout,
                   exitStatus, fileReads>>

\* main: .unwrap_or_else(|err| { eprintln!(..); process::exit(1) })
MainUnwrapOrElse ==
    /\ gPc = "unwrap_or_else"
    /\ cfgResult.tag # "Panic"
    /\ IF cfgResult.tag = "Ok"
       THEN /\ gPc' = "run"
            /\ UNCHANGED <<stderr, exitStatus>>
       ELSE /\ stderr' = Append(stderr, <<"Problem parsing argument: ", cfgResult.err>>)
            /\ exitStatus' = <<1>>
            /\ gPc' = "exited"
    /\ UNCHANGED <<args, envIgnoreCase, disk, cfgResult, runResult, stdout,
                   fileReads>>

\* run(config): read the file (? returns the error), search, print each
\* result line.
Run ==
    /\ gPc = "run"
    /\ fileReads' = fileReads + 1
    /\ LET config == cfgResult.config
           read == ReadToString(disk, config.filename)
       IN  IF read.tag = "Err"
           THEN /\ runResult' = "Err"
                /\ UNCHANGED stdout
           ELSE /\ stdout' = stdout \o
                        (IF config.ignore_case
                         THEN search_case_insensitive(config.query, read.text)
                         ELSE search(config.query, read.text))
                /\ runResult' = "Ok"
    /\ gPc' = "if_let"
    /\ UNCHANGED <<args, envIgnoreCase, disk, cfgResult, stderr, exitStatus>>

\* main: if let Err(e) = minigrep::run(config) { eprintln!(..); exit(1) },
\* else main returns.
MainIfLet ==
    /\ gPc = "if_let"
    /\ IF runResult = "Err"
       THEN /\ stderr' = Append(stderr, <<"Application error: ", "io::Error">>)
            /\ exitStatus' = <<1>>
            /\ gPc' = "exited"
       ELSE /\ exitStatus' = <<0>>
            /\ gPc' = "returned"
            /\ UNCHANGED stderr
    /\ UNCHANGED <<args, envIgnoreCase, disk, cfgResult, runResult, stdout,
                   fileReads>>

(***************************************************************************)
(* Properties of minigrep.                                                 *)
(***************************************************************************)
\* q occurs in l: l is some prefix, then q, then some suffix.
IsSubstring(q, l) ==
    \E i \in 0..Len(l) : \E j \in (i + 1)..(Len(l) + 1) :
        l = SubSeq(l, 1, i) \o q \o SubSeq(l, j, Len(l))

\* The k-th smallest element of a set of naturals.
KthOf(S, k) == CHOOSE i \in S : Cardinality({j \in S : j < i}) = k - 1

\* r holds exactly the elements of L at the indices M, in the order of L.
IsSelection(r, L, M) ==
    /\ Len(r) = Cardinality(M)
    /\ \A k \in 1..Len(r) : r[k] = L[KthOf(M, k)]

\* The indices of the lines of text that contain q as written.
SensitiveIdx(q, text) ==
    {i \in DOMAIN Lines(text) : IsSubstring(q, Lines(text)[i])}

\* The indices of the lines of text whose lower-cased text contains the
\* lower-cased q.
InsensitiveIdx(q, text) ==
    {i \in DOMAIN Lines(text) :
        IsSubstring(ToLowercase(q), ToLowercase(Lines(text)[i]))}

\* The characters that differ from c only by letter case.
CaseCounterparts(c) ==
    CASE c = "a" -> {"A"}
      [] c = "A" -> {"a"}
      [] c = "SIGMA" -> {"sigma", "fsigma"}
      [] c \in {"sigma", "fsigma"} -> {"SIGMA"}
      [] OTHER -> {}

\* The strings obtained from s by changing the case of some of its letters.
CaseVariants(s) ==
    {t \in [DOMAIN s -> SearchChars] :
        \A i \in DOMAIN s : t[i] = s[i] \/ t[i] \in CaseCounterparts(s[i])}

\* C1: search(query, contents) returns exactly the lines of contents that
\* contain query as a case-sensitive substring, in their order and with their
\* multiplicity in contents.
C1_SearchExactLines ==
    sPc = "search" =>
        IsSelection(sResult, Lines(sContents), SensitiveIdx(sQuery, sContents))

\* A call of search that returned some lines of a text and left others out.
C1_Witness ==
    /\ sPc = "search"
    /\ sQuery # <<>>
    /\ Len(sResult) >= 1
    /\ Len(sResult) < Len(Lines(sContents))

\* C2: search_case_insensitive(query, contents) returns, in order, the
\* original lines whose lower-cased text contains the lower-cased query, and
\* changing the case of letters of the query or of the contents never changes
\* which lines are returned.
C2_CaseNeverMatters ==
    sPc = "search_ci" =>
        /\ IsSelection(sResult, Lines(sContents),
                       InsensitiveIdx(sQuery, sContents))
        /\ \A q2 \in CaseVariants(sQuery) :
               search_case_insensitive(q2, sContents) = sResult
        /\ \A c2 \in CaseVariants(sContents) :
               IsSelection(search_case_insensitive(sQuery, c2), Lines(c2),
                           InsensitiveIdx(sQuery, sContents))

\* The configuration parser has been called and has returned.
ConfigReturned == gPc \notin {"start", "panicked", "idle"}

\* C7: Config::new returns Err("Didn't get a query string") for an iterator
\* of fewer than two items, Err("Didn't get a file name") for one of exactly
\* two, Ok for one of three or more, and panics for none, the empty one
\* included.
C7_ConfigNewCases ==
    ConfigReturned =>
        /\ cfgResult.tag \in {"Ok", "Err"}
        /\ Len(args) < 2 =>
               cfgResult.tag = "Err" /\ cfgResult.err = "Didn't get a query string"
        /\ Len(args) = 2 =>
               cfgResult.tag = "Err" /\ cfgResult.err = "Didn't get a file name"
        /\ Len(args) >= 3 => cfgResult.tag = "Ok"

\* Config::new has returned an error for the empty iterator.
C7_Witness ==
    /\ ConfigReturned
    /\ args = <<>>
    /\ cfgResult.tag = "Err"

\* C8: when Config::new succeeds, query is the second item, filename the
\* third, and ignore_case is true exactly when IGNORE_CASE is set, to any
\* value.
C8_ConfigPopulated ==
    (ConfigReturned /\ cfgResult.tag = "Ok") =>
        /\ cfgResult.config.query = args[2]
        /\ cfgResult.config.filename = args[3]
        /\ cfgResult.config.ignore_case = (envIgnoreCase # "unset")

\* run has returned Ok: the file was read and the result lines printed.
RunSucceeded == gPc \in {"if_let", "returned"} /\ runResult = "Ok"

C10_ErrorFlow ==
    /\ cfgResult.tag = "Err" =>
          /\ gPc \in {"unwrap_or_else", "exited"}
          /\ runResult = "None" /\ fileReads = 0 /\ stdout = <<>>
          /\ gPc = "exited" =>
                /\ exitStatus = <<1>>
                /\ stderr = <<<<"Problem parsing argument: ", cfgResult.err>>>>
    /\ runResult = "Err" =>
          /\ gPc \in {"if_let", "exited"}
          /\ stdout = <<>>
          /\ gPc = "exited" =>
                /\ exitStatus = <<1>>
                /\ stderr = <<<<"Application error: ", "io::Error">>>>
    /\ stdout # <<>> => cfgResult.tag = "Ok" /\ runResult = "Ok"
    /\ gPc = "returned" <=>
          /\ exitStatus = <<0>>
          /\ cfgResult.tag = "Ok" /\ runResult = "Ok"
    /\ exitStatus # <<>> <=> gPc \in {"exited", "returned", "panicked"}

\* main has exited with status 1 after run failed to read the file.
C10_Witness ==
    /\ gPc = "exited"
    /\ runResult = "Err"
    /\ cfgResult.tag = "Ok"
    /\ exitStatus = <<1>>

(***************************************************************************)
(* The Mutex/Arc counter: main spawns ten threads that each lock the       *)
(* mutex and add one, joins them and prints the counter.                   *)
(***************************************************************************)
\* for _ in 0..10
NumThreads == 10
Threads == 1..NumThreads
MainThread == 0
I32Max == 2147483647

MutexIdle ==
    /\ mCounter = 0
    /\ mHolders = {}
    /\ mPoisoned = FALSE
    /\ mMainPc = "idle"
    /\ mSpawned = 0
    /\ mJoined = 0
    /\ tPc = [t \in Threads |-> "unspawned"]
    /\ tTmp = [t \in Threads |-> 0]
    /\ mPrinted = <<>>

\* let counter = Arc::new(Mutex::new(0)); let mut handles = vec![];
MutexInit ==
    /\ mCounter = 0
    /\ mHolders = {}
    /\ mPoisoned = FALSE
    /\ mMainPc = "spawn"
    /\ mSpawned = 0
    /\ mJoined = 0
    /\ tPc = [t \in Threads |-> "unspawned"]
    /\ tTmp = [t \in Threads |-> 0]
    /\ mPrinted = <<>>

\* A mutex that lets a thread in while another holds it.
LockAlwaysAvailable == TRUE

\* Mutex::lock blocks the calling thread until no thread holds the lock.
LockAvailable == mHolders = {}

\* One iteration of the spawning loop: clone the Arc, spawn the thread, push
\* its handle; after the last iteration main goes on to the joining loop.
MainSpawn ==
    /\ mMainPc = "spawn"
    /\ mSpawned < NumThreads
    /\ tPc' = [tPc EXCEPT ![mSpawned + 1] = "lock"]
    /\ mSpawned' = mSpawned + 1
    /\ mMainPc' = IF mSpawned + 1 = NumThreads THEN "join" ELSE "spawn"
    /\ UNCHANGED <<mCounter, mHolders, mPoisoned, mJoined, tTmp, mPrinted>>

\* Spawned thread t: counter.lock().unwrap(); a poisoned lock makes lock
\* return Err and unwrap panic.
ThreadLock(t) ==
    /\ tPc[t] = "lock"
    /\ LockAvailable
    /\ IF mPoisoned
       THEN /\ tPc' = [tPc EXCEPT ![t] = "panicked"]
            /\ UNCHANGED mHolders
       ELSE /\ tPc' = [tPc EXCEPT ![t] = "read"]
            /\ mHolders' = mHolders \cup {t}
    /\ UNCHANGED <<mCounter, mPoisoned, mMainPc, mSpawned, mJoined, tTmp,
                   mPrinted>>

\* Spawned thread t: the load of *num += 1.
ThreadRead(t) ==
    /\ tPc[t] = "read"
    /\ tTmp' = [tTmp EXCEPT ![t] = mCounter]
    /\ tPc' = [tPc EXCEPT ![t] = "write"]
    /\ UNCHANGED <<mCounter, mHolders, mPoisoned, mMainPc, mSpawned, mJoined,
                   mPrinted>>

\* Spawned thread t: the add and the store of *num += 1, after which the
\* loaded value is dead; an overflowing add panics, and the guard dropped by
\* a panicking thread poisons the mutex.
ThreadWrite(t) ==
    /\ tPc[t] = "write"
    /\ IF tTmp[t] = I32Max
       THEN /\ tPc' = [tPc EXCEPT ![t] = "panicked"]
            /\ mPoisoned' = TRUE
            /\ mHolders' = mHolders \ {t}
            /\ UNCHANGED mCounter
       ELSE /\ mCounter' = tTmp[t] + 1
            /\ tPc' = [tPc EXCEPT ![t] = "unlock"]
            /\ UNCHANGED <<mPoisoned, mHolders>>
    /\ tTmp' = [tTmp EXCEPT ![t] = 0]
    /\ UNCHANGED <<mMainPc, mSpawned, mJoined, mPrinted>>

\* The closure ends without its guard releasing the lock.
ThreadFinishHoldingLock(t) ==
    /\ tPc[t] = "unlock"
    /\ tPc' = [tPc EXCEPT ![t] = "done"]
    /\ UNCHANGED <<mCounter, mHolders, mPoisoned, mMainPc, mSpawned, mJoined,
                   tTmp, mPrinted>>

\* Spawned thread t: the closure ends, the guard num goes out of scope and
\* releases the lock, the thread finishes.
ThreadUnlock(t) ==
    /\ tPc[t] = "unlock"
    /\ mHolders' = mHolders \ {t}
    /\ tPc' = [tPc EXCEPT ![t] = "done"]
    /\ UNCHANGED <<mCounter, mPoisoned, mMainPc, mSpawned, mJoined, tTmp,
                   mPrinted>>

\* The joining loop with one handle fewer joined.
MainJoinAllButOne ==
    /\ mMainPc = "join"
    /\ tPc[mJoined + 1] \in {"done", "panicked"}
    /\ IF tPc[mJoined + 1] = "panicked"
       THEN /\ mMainPc' = "panicked"
            /\ UNCHANGED mJoined
       ELSE /\ mJoined' = mJoined + 1
            /\ mMainPc' = IF mJoined + 1 >= NumThreads - 1 THEN "final_lock"
                          ELSE "join"
    /\ UNCHANGED <<mCounter, mHolders, mPoisoned, mSpawned, tPc, tTmp,
                   mPrinted>>

\* One iteration of the joining loop: handle.join().unwrap() waits for the
\* thread of the next handle to finish and panics if that thread panicked;
\* after the last handle main goes on to print.
MainJoin ==
    /\ mMainPc = "join"
    /\ tPc[mJoined + 1] \in {"done", "panicked"}
    /\ IF tPc[mJoined + 1] = "panicked"
       THEN /\ mMainPc' = "panicked"
            /\ UNCHANGED mJoined
       ELSE /\ mJoined' = mJoined + 1
            /\ mMainPc' = IF mJoined + 1 = NumThreads THEN "final_lock"
                          ELSE "join"
    /\ UNCHANGED <<mCounter, mHolders, mPoisoned, mSpawned, tPc, tTmp,
                   mPrinted>>

\* main: counter.lock().unwrap() of the println! statement.
MainLock ==
    /\ mMainPc = "final_lock"
    /\ LockAvailable
    /\ IF mPoisoned
       THEN /\ mMainPc' = "panicked"
            /\ UNCHANGED mHolders
       ELSE /\ mMainPc' = "print"
            /\ mHolders' = mHolders \cup {MainThread}
    /\ UNCHANGED <<mCounter, mPoisoned, mSpawned, mJoined, tPc, tTmp,
                   mPrinted>>

\* main: println!("Result: {}", *guard); the temporary guard is dropped at
\* the end of the statement.
MainPrint ==
    /\ mMainPc = "print"
    /\ mPrinted' = Append(mPrinted, mCounter)
    /\ mHolders' = mHolders \ {MainThread}
    /\ mMainPc' = "done"
    /\ UNCHANGED <<mCounter, mPoisoned, mSpawned, mJoined, tPc, tTmp>>

\* C3: once main has joined all ten handles the counter is exactly 10, and
\* 10 is the value main prints as Result.
C3_ResultIsTen ==
    /\ mMainPc \in {"final_lock", "print", "done"} => mCounter = NumThreads
    /\ mMainPc = "done" => mPrinted = <<NumThreads>>
    /\ mMainPc # "panicked"

\* main has joined the ten threads and printed the result.
C3_Witness ==
    /\ mMainPc = "done"
    /\ mJoined = NumThreads
    /\ \A t \in Threads : tPc[t] = "done"
    /\ mPrinted = <<10>>

\* The worker threads that have completed their increment.
Incremented == {t \in Threads : tPc[t] \in {"unlock", "done"}}

\* C18: at most one thread, of the ten workers and main, holds the lock;
\* a thread that reads or writes the counter holds it; and the counter is
\* the number of workers that have completed their increment.
C18_MutualExclusion ==
    /\ Cardinality(mHolders) <= 1
    /\ \A t \in Threads : tPc[t] \in {"read", "write", "unlock"} => mHolders = {t}
    /\ mMainPc = "print" => mHolders = {MainThread}
    /\ mCounter = Cardinality(Incremented)

\* A worker is between its load and its store while another waits for the
\* lock and three have already incremented.
C18_Witness ==
    /\ \E t \in Threads : tPc[t] = "write" /\ mHolders = {t}
    /\ \E t \in Threads : tPc[t] = "lock"
    /\ mCounter = 3

\* C19: no worker panics and the lock is never poisoned; every worker gets
\* the lock and finishes, every join returns, the final lock of main
\* succeeds and the program terminates with the lock free.
C19_TerminatesWithoutDeadlock ==
    /\ [](~mPoisoned /\ mMainPc # "panicked"
            /\ \A t \in Threads : tPc[t] # "panicked")
    /\ <>(/\ mMainPc = "done"
          /\ mJoined = NumThreads
          /\ \A t \in Threads : tPc[t] = "done"
          /\ mHolders = {})

C19_Witness ==
    /\ mMainPc = "done"
    /\ mHolders = {}
    /\ ~mPoisoned
    /\ \A t \in Threads : tPc[t] = "done"

(***************************************************************************)
(* The mpsc program: main makes a channel, clones the transmitter, spawns  *)
(* two producers that each send four strings, and iterates the receiver.   *)
(***************************************************************************)
Producers == {1, 2}

\* The vals vector of each spawned closure.
Vals(p) ==
    IF p = 1 THEN <<"hi", "from", "the", "thread">>
    ELSE <<"more", "messages", "for", "you">>

MpscIdle ==
    /\ chQueue = <<>>
    /\ txAlive = {}
    /\ rxAlive = FALSE
    /\ pPc = [p \in Producers |-> "unspawned"]
    /\ pIdx = [p \in Producers |-> 1]
    /\ pTx = [p \in Producers |-> "none"]
    /\ cMainPc = "idle"
    /\ received = <<>>

\* let (tx, rx) = mpsc::channel(); let tx1 = tx.clone();
MpscInit ==
    /\ chQueue = <<>>
    /\ txAlive = {"tx", "tx1"}
    /\ rxAlive = TRUE
    /\ pPc = [p \in Producers |-> "unspawned"]
    /\ pIdx = [p \in Producers |-> 1]
    /\ pTx = [p \in Producers |-> "none"]
    /\ cMainPc = "spawn_first"
    /\ received = <<>>

\* A channel that counts as closed as soon as one transmitter is dropped.
ClosedOnFirstDrop == txAlive # {"tx", "tx1"}

\* The channel is closed for the receiver when every transmitter has been
\* dropped.
AllSendersDropped == txAlive = {}

\* main: the first thread::spawn(move || ..), which moves tx1 into the closure.
MpscSpawnFirst ==
    /\ cMainPc = "spawn_first"
    /\ pPc' = [pPc EXCEPT ![1] = "send"]
    /\ pTx' = [pTx EXCEPT ![1] = "tx1"]
    /\ cMainPc' = "spawn_second"
    /\ UNCHANGED <<chQueue, txAlive, rxAlive, pIdx, received>>

\* A second spawn whose closure gets another clone, so that main keeps tx.
MpscSpawnSecondWithClone ==
    /\ cMainPc = "spawn_second"
    /\ pPc' = [pPc EXCEPT ![2] = "send"]
    /\ pTx' = [pTx EXCEPT ![2] = "tx2"]
    /\ txAlive' = txAlive \cup {"tx2"}
    /\ cMainPc' = "recv"
    /\ UNCHANGED <<chQueue, rxAlive, pIdx, received>>

\* main: the second thread::spawn(move || ..), which moves tx into the closure.
MpscSpawnSecond ==
    /\ cMainPc = "spawn_second"
    /\ pPc' = [pPc EXCEPT ![2] = "send"]
    /\ pTx' = [pTx EXCEPT ![2] = "tx"]
    /\ cMainPc' = "recv"
    /\ UNCHANGED <<chQueue, txAlive, rxAlive, pIdx, received>>

\* Producer p: tx.send(val).unwrap(); send fails when the receiver has been
\* dropped, unwrap then panics and the unwinding drops the transmitter.
ProducerSend(p) ==
    /\ pPc[p] = "send"
    /\ IF rxAlive
       THEN /\ chQueue' = Append(chQueue, Vals(p)[pIdx[p]])
            /\ pPc' = [pPc EXCEPT ![p] = "sleep"]
            /\ UNCHANGED txAlive
       ELSE /\ pPc' = [pPc EXCEPT ![p] = "panicked"]
            /\ txAlive' = txAlive \ {pTx[p]}
            /\ UNCHANGED chQueue
    /\ UNCHANGED <<rxAlive, pIdx, pTx, cMainPc, received>>

\* Producer p: thread::sleep(Duration::from_secs(1)) returns and the for loop
\* takes the next value, or ends after the last one.
ProducerSleep(p) ==
    /\ pPc[p] = "sleep"
    /\ pIdx' = [pIdx EXCEPT ![p] = pIdx[p] + 1]
    /\ pPc' = [pPc EXCEPT ![p] = IF pIdx[p] = Len(Vals(p)) THEN "finish"
                                  ELSE "send"]
    /\ UNCHANGED <<chQueue, txAlive, rxAlive, pTx, cMainPc, received>>

\* Producer p: the closure returns and drops the transmitter it owns.
ProducerFinish(p) ==
    /\ pPc[p] = "finish"
    /\ txAlive' = txAlive \ {pTx[p]}
    /\ pPc' = [pPc EXCEPT ![p] = "done"]
    /\ UNCHANGED <<chQueue, rxAlive, pIdx, pTx, cMainPc, received>>

\* main: one iteration of for received in rx: recv returns the oldest
\* message in the channel and the body prints it.
MpscRecv ==
    /\ cMainPc = "recv"
    /\ chQueue # <<>>
    /\ received' = Append(received, Head(chQueue))
    /\ chQueue' = Tail(chQueue)
    /\ UNCHANGED <<txAlive, rxAlive, pPc, pIdx, pTx, cMainPc>>

\* A loop that gives up as soon as it finds the channel empty, as a loop
\* over try_recv would.
MpscLoopEndWhenEmpty ==
    /\ cMainPc = "recv"
    /\ chQueue = <<>>
    /\ rxAlive' = FALSE
    /\ cMainPc' = "done"
    /\ UNCHANGED <<chQueue, txAlive, pPc, pIdx, pTx, received>>

\* main: recv finds the channel empty and closed, the iteration ends, rx is
\* dropped and main returns.
MpscLoopEnd ==
    /\ cMainPc = "recv"
    /\ chQueue = <<>>
    /\ AllSendersDropped
    /\ rxAlive' = FALSE
    /\ cMainPc' = "done"
    /\ UNCHANGED <<chQueue, txAlive, pPc, pIdx, pTx, received>>

\* The number of times x occurs in seq.
Count(seq, x) == Cardinality({i \in DOMAIN seq : seq[i] = x})

\* The eight strings the two producers send.
AllMessages == UNION {{Vals(p)[i] : i \in DOMAIN Vals(p)} : p \in Producers}

\* The number of sends producer p has completed.
SentCount(p) ==
    CASE pPc[p] = "unspawned" -> 0
      [] pPc[p] \in {"send", "panicked"} -> pIdx[p] - 1
      [] pPc[p] = "sleep" -> pIdx[p]
      [] OTHER -> Len(Vals(p))

\* The strings sent so far.
SentSoFar == UNION {{Vals(p)[i] : i \in 1..SentCount(p)} : p \in Producers}

\* C4: each of the eight strings the producers send is received by main's
\* loop exactly once: a string that was sent is in the channel or received,
\* never both and never twice, nothing else is ever received, and when the
\* loop has ended all eight have been received.
C4_EachReceivedOnce ==
    /\ \A i \in DOMAIN received : received[i] \in AllMessages
    /\ \A m \in AllMessages :
          Count(received, m) + Count(chQueue, m)
              = (IF m \in SentSoFar THEN 1 ELSE 0)
    /\ cMainPc = "done" => \A m \in AllMessages : Count(received, m) = 1

\* The loop has ended after receiving the eight strings, those of the two
\* producers interleaved.
C4_Witness ==
    /\ cMainPc = "done"
    /\ Len(received) = 8
    /\ received[1] = "more"
    /\ received[2] = "hi"

\* C5: main's receive loop eventually terminates.
C5_LoopTerminates == <>(cMainPc = "done")

\* Both producers have sent their four messages and dropped their
\* transmitters, the channel is drained and the loop has ended.
C5_Witness ==
    /\ cMainPc = "done"
    /\ \A p \in Producers : pPc[p] = "done" /\ pIdx[p] = 5
    /\ txAlive = {}
    /\ chQueue = <<>>
    /\ rxAlive = FALSE

\* C20: the receive loop has not ended while a transmitter is alive or a
\* sent message is still in the channel; a producer that has finished and
\* dropped its transmitter leaves the channel open for the other, whose
\* sends still reach the receiver.
C20_LoopNeverEndsEarly ==
    /\ (txAlive # {} \/ chQueue # <<>>) => cMainPc # "done"
    /\ cMainPc = "done" =>
           /\ \A p \in Producers : pPc[p] = "done"
           /\ Len(received) = SentCount(1) + SentCount(2)
    /\ \A p \in Producers :
           (pPc[p] = "done" /\ \E q \in Producers : pPc[q] # "done") =>
               rxAlive /\ cMainPc # "done"

\* The first producer has finished and dropped tx1, the channel is empty,
\* and the loop still waits for the second producer, which has sends left.
C20_Witness ==
    /\ pPc[1] = "done"
    /\ "tx1" \notin txAlive
    /\ txAlive = {"tx"}
    /\ pPc[2] = "send"
    /\ pIdx[2] = 2
    /\ chQueue = <<>>
    /\ cMainPc = "recv"
    /\ Len(received) = 5

\* C21: no send fails: a producer that still has a send to execute finds the
\* receiver alive, the receiver is dropped only when both producers are
\* done, and no producer's unwrap panics.
C21_NoSendFails ==
    /\ \A p \in Producers : pPc[p] # "panicked"
    /\ \A p \in Producers : pPc[p] \in {"send", "sleep", "finish"} => rxAlive
    /\ ~rxAlive => \A p \in Producers : pPc[p] = "done" /\ pIdx[p] = 5

\* The second producer has just executed its last send, after the first
\* producer finished and dropped tx1, and the receiver is still alive.
C21_Witness ==
    /\ pPc[2] = "sleep"
    /\ pIdx[2] = 4
    /\ pPc[1] = "done"
    /\ rxAlive
    /\ chQueue = <<"you">>
    /\ Len(received) = 7

(***************************************************************************)
(* Guess::new, the range guard, in its two versions.                       *)
(***************************************************************************)
I32Min == -I32Max - 1
GuessMin == 1
GuessMax == 100

\* A panic with the message text before the formatted value, and the value.
GuessPanic(text, v) == [tag |-> "Panic", value |-> v, text |-> text]
\* Guess { value }
GuessOf(v) == [tag |-> "Guess", value |-> v, text |-> ""]
NoGuess == [tag |-> "None", value |-> 0, text |-> ""]

\* Guess::new of adder with the two messages exchanged.
GuessNewAdderSwapped(value) ==
    IF value < GuessMin
    THEN GuessPanic("Guess value must be less than or equal to 100", value)
    ELSE IF value > GuessMax
    THEN GuessPanic("Guess value must be greater than or equal to 1", value)
    ELSE GuessOf(value)

\* Guess::new of adder.
GuessNewAdder(value) ==
    IF value < GuessMin
    THEN GuessPanic("Guess value must be greater than or equal to 1", value)
    ELSE IF value > GuessMax
    THEN GuessPanic("Guess value must be less than or equal to 100", value)
    ELSE GuessOf(value)

\* Guess::new of panic_or_not.
GuessNewPanicOrNot(value) ==
    IF value < GuessMin \/ value > GuessMax
    THEN GuessPanic("Guess value must be between 1 and 100", value)
    ELSE GuessOf(value)

\* The i32 arguments tried: those around the range, the argument of the test
\* greater_than_100, and the two ends of i32.
GuessInputs == ((GuessMin - GuessSpan)..(GuessMax + GuessSpan))
               \cup {I32Min, 200, I32Max}

GuessIdle ==
    /\ guessValue = 0
    /\ guessPc = "idle"
    /\ guessOutcome = NoGuess

GuessInit ==
    /\ guessValue \in GuessInputs
    /\ guessPc = "ready"
    /\ guessOutcome = NoGuess

\* A call of adder's Guess::new(value).
CallGuessNewAdder ==
    /\ guessPc = "ready"
    /\ guessOutcome' = GuessNewAdder(guessValue)
    /\ guessPc' = "adder"
    /\ UNCHANGED guessValue

\* A call of panic_or_not's Guess::new(value).
CallGuessNewPanicOrNot ==
    /\ guessPc = "ready"
    /\ guessOutcome' = GuessNewPanicOrNot(guessValue)
    /\ guessPc' = "panic_or_not"
    /\ UNCHANGED guessValue

\* C6: Guess::new(value) panics when value < 1 or value > 100 and returns a
\* Guess holding exactly value otherwise; in the adder version the panic
\* message for value > 100 contains "Guess value must be less than or equal
\* to 100" and the one for value < 1 contains "Guess value must be greater
\* than or equal to 1".
C6_GuessRangeGuard ==
    guessPc \in {"adder", "panic_or_not"} =>
        /\ (guessValue < 1 \/ guessValue > 100) =>
               guessOutcome.tag = "Panic"
        /\ (1 <= guessValue /\ guessValue <= 100) =>
               guessOutcome.tag = "Guess" /\ guessOutcome.value = guessValue
        /\ (guessPc = "adder" /\ guessValue > 100) =>
               guessOutcome.text = "Guess value must be less than or equal to 100"
        /\ (guessPc = "adder" /\ guessValue < 1) =>
               guessOutcome.text = "Guess value must be greater than or equal to 1"

\* The call of the test greater_than_100 has panicked.
C6_Witness ==
    /\ guessPc = "adder"
    /\ guessValue = 200
    /\ guessOutcome.tag = "Panic"

(***************************************************************************)
(* The guessing game (src/guessing_game/src/main.rs).                      *)
(***************************************************************************)
\* rand::thread_rng().gen_range(1..101)
SecretNumbers == 1..100

WhiteSpace == {" ", "LF", "CR"}

RECURSIVE TrimStart(_)
TrimStart(s) ==
    IF Len(s) > 0 /\ s[1] \in WhiteSpace THEN TrimStart(Tail(s)) ELSE s

RECURSIVE TrimEnd(_)
TrimEnd(s) ==
    IF Len(s) > 0 /\ s[Len(s)] \in WhiteSpace
    THEN TrimEnd(SubSeq(s, 1, Len(s) - 1))
    ELSE s

\* str::trim
Trim(s) == TrimEnd(TrimStart(s))

Digits == {"0", "5"}

DigitValue(c) == IF c = "5" THEN 5 ELSE 0

RECURSIVE DigitsValue(_)
DigitsValue(s) ==
    IF Len(s) = 0 THEN 0
    ELSE 10 * DigitsValue(SubSeq(s, 1, Len(s) - 1)) + DigitValue(s[Len(s)])

ParseOk(n) == [tag |-> "Ok", value |-> n]
ParseErr == [tag |-> "Err", value |-> 0]

\* str::parse::<u32>: an optional '+', then at least one decimal digit and
\* nothing else.  Lines of at most MaxLineLen digits stay below u32::MAX, so
\* the overflow error of longer digit strings does not arise here.
ParseU32(s) ==
    LET body == IF Len(s) > 0 /\ s[1] = "+" THEN Tail(s) ELSE s
    IN  IF Len(body) > 0 /\ \A i \in 1..Len(body) : body[i] \in Digits
        THEN ParseOk(DigitsValue(body))
        ELSE ParseErr

LineChars == {"0", "5", "+", "-", " ", "x"}

\* What one read_line call can append to the empty String: a line with its
\* newline, or nothing at end of input.
GuessLines ==
    {Append(s, "LF") : s \in StringsUpTo(LineChars, MaxLineLen)} \cup {<<>>}

GameIdle ==
    /\ ggPc = "idle"
    /\ ggSecret = 0
    /\ ggLine = <<>>
    /\ ggGuess = 0
    /\ ggParsed = "none"
    /\ ggReads = 0
    /\ ggOut = "none"

GameInit ==
    /\ ggPc = "start"
    /\ ggSecret = 0
    /\ ggLine = <<>>
    /\ ggGuess = 0
    /\ ggParsed = "none"
    /\ ggReads = 0
    /\ ggOut = "none"

\* Lines 8-13: the banner and the secret number.
GameStart ==
    /\ ggPc = "start"
    /\ \E n \in SecretNumbers : ggSecret' = n
    /\ ggOut' = "The secret number is"
    /\ ggPc' = "prompt"
    /\ UNCHANGED <<ggLine, ggGuess, ggParsed, ggReads>>

\* Lines 15-18: the top of the loop.
GamePrompt ==
    /\ ggPc = "prompt"
    /\ ggOut' = "Please input your guess."
    /\ ggLine' = <<>>
    /\ ggParsed' = "none"
    /\ ggPc' = "read"
    /\ UNCHANGED <<ggSecret, ggGuess, ggReads>>

\* Lines 20-22: read_line(..).expect(..); the line comes from the terminal,
\* and an error of the operating system panics.
GameReadLine ==
    /\ ggPc = "read"
    /\ ggReads < MaxReads
    /\ ggReads' = ggReads + 1
    /\ \/ /\ \E l \in GuessLines : ggLine' = l
          /\ ggPc' = "parse"
          /\ UNCHANGED ggOut
       \/ /\ ggPc' = "panicked"
          /\ ggOut' = "Failed to read line"
          /\ UNCHANGED ggLine
    /\ UNCHANGED <<ggSecret, ggGuess, ggParsed>>

\* Line 27, commented out in the source: parse().expect(..).
GameParseExpect ==
    /\ ggPc = "parse"
    /\ LET r == ParseU32(Trim(ggLine))
       IN  IF r.tag = "Ok"
           THEN /\ ggGuess' = r.value
                /\ ggParsed' = "ok"
                /\ ggPc' = "compare"
                /\ UNCHANGED ggOut
           ELSE /\ ggParsed' = "err"
                /\ ggPc' = "panicked"
                /\ ggOut' = "Please type a number!"
                /\ UNCHANGED ggGuess
    /\ UNCHANGED <<ggSecret, ggLine, ggReads>>

\* Lines 30-33: match guess.trim().parse() { Ok(num) => num, Err(_) => continue }
GameParse ==
    /\ ggPc = "parse"
    /\ LET r == ParseU32(Trim(ggLine))
       IN  IF r.tag = "Ok"
           THEN /\ ggGuess' = r.value
                /\ ggParsed' = "ok"
                /\ ggPc' = "compare"
           ELSE /\ ggParsed' = "err"
                /\ ggPc' = "prompt"
                /\ UNCHANGED ggGuess
    /\ UNCHANGED <<ggSecret, ggLine, ggReads, ggOut>>

\* Lines 42-53: the echo and the comparison with the secret number.
GameCompare ==
    /\ ggPc = "compare"
    /\ IF ggGuess < ggSecret
       THEN ggOut' = "Too small!" /\ ggPc' = "prompt"
       ELSE IF ggGuess > ggSecret
       THEN ggOut' = "Too big!" /\ ggPc' = "prompt"
       ELSE ggOut' = "You win!" /\ ggPc' = "exited"
    /\ UNCHANGED <<ggSecret, ggLine, ggGuess, ggParsed, ggReads>>

\* C11 as stated: a line that does not parse as an unsigned integer ends the
\* process; the game never returns to its prompt after such a line.
C11_InvalidInputTerminates ==
    ggParsed = "err" => ggPc \in {"exited", "panicked"}

\* C11 as the code has it: after a line that does not parse the game is back
\* at the top of its loop and prompts again; the process ends only by a
\* winning guess or by a failed read.
C11_InvalidInputRetries ==
    /\ ggParsed = "err" => ggPc = "prompt"
    /\ ggPc = "exited" =>
           ggParsed = "ok" /\ ggGuess = ggSecret /\ ggOut = "You win!"
    /\ ggPc = "panicked" => ggOut = "Failed to read line"

C11_Witness ==
    /\ ggParsed = "err"
    /\ ggPc = "prompt"
    /\ ggLine = <<"x", "LF">>
    /\ ggReads = 2

(***************************************************************************)
(* LimitTracker and its mock messenger (src/refcell/src/lib.rs).           *)
(***************************************************************************)
TestMax == 100
TestValue == 80

\* The usize arguments of LimitTracker::new and of set_value.
Quotas == 0..MaxQuota \cup {TestMax}
Values == 0..(MaxQuota + 1) \cup {TestValue}

OverQuotaError == "Error: You are over your quota!"
UrgentWarning == "Urgent warning: You've used up over 90% of your quota!"
Warning == "Warning: You've used up over 75% of your quota!"

\* self.value as f64 / self.max as f64.  The quotient of two f64 values is
\* a number, an infinity (x / 0.0 with x > 0) or NaN (0.0 / 0.0).  Within
\* Quotas and Values both conversions are exact and the rounded quotient
\* compares with 1.0, 0.9 and 0.75 as the exact fraction num/den does.
PercentageOfMax(value, max) ==
    IF max = 0
    THEN [kind |-> IF value = 0 THEN "NaN" ELSE "Inf", num |-> 0, den |-> 1]
    ELSE [kind |-> "Num", num |-> value, den |-> max]

\* f64 comparison with the constant n/d; every comparison with NaN is false.
F64Gt(p, n, d) ==
    \/ p.kind = "Inf"
    \/ p.kind = "Num" /\ p.num * d > n * p.den

F64Ge(p, n, d) ==
    \/ p.kind = "Inf"
    \/ p.kind = "Num" /\ p.num * d >= n * p.den

\* The if / else if chain of set_value: the messages one call sends.
MessagesFor(p) ==
    IF F64Gt(p, 1, 1) THEN <<OverQuotaError>>
    ELSE IF F64Ge(p, 9, 10) THEN <<UrgentWarning>>
    ELSE IF F64Ge(p, 3, 4) THEN <<Warning>>
    ELSE <<>>

TrackerIdle ==
    /\ ltPc = "idle"
    /\ ltMax = 0
    /\ ltValue = 0
    /\ ltSent = <<>>
    /\ ltLastSent = <<>>
    /\ ltCalls = 0

\* MockMessenger::new() and LimitTracker::new(&mock_messenger, max).
TrackerInit ==
    /\ ltPc = "ready"
    /\ ltMax \in Quotas
    /\ ltValue = 0
    /\ ltSent = <<>>
    /\ ltLastSent = <<>>
    /\ ltCalls = 0

\* limit_tracker.set_value(value), with MockMessenger::send pushing the
\* message onto sent_messages.
SetValue(value) ==
    /\ ltPc = "ready"
    /\ ltCalls < MaxCalls
    /\ ltCalls' = ltCalls + 1
    /\ ltValue' = value
    /\ LET sent == MessagesFor(PercentageOfMax(value, ltMax))
       IN  /\ ltLastSent' = sent
           /\ ltSent' = ltSent \o sent
    /\ UNCHANGED <<ltPc, ltMax>>

\* The message the claim assigns to a call, from value and max alone.
ClaimedMessages(value, max) ==
    IF value > max THEN <<OverQuotaError>>
    ELSE IF 10 * value >= 9 * max THEN <<UrgentWarning>>
    ELSE IF 4 * value >= 3 * max THEN <<Warning>>
    ELSE <<>>

\* C12: after a call of set_value the value is stored, the call has sent at
\* most one message, that message is the one the thresholds on value and max
\* assign (over quota above max, urgent from 90% to max, warning from 75% to
\* below 90%, none below 75%), and a first call at 80% of max leaves exactly
\* one message in the messenger.
C12_MessageByThreshold ==
    ltCalls > 0 =>
        /\ Len(ltLastSent) <= 1
        /\ ltLastSent = ClaimedMessages(ltValue, ltMax)
        /\ Len(ltSent) <= ltCalls
        /\ (ltCalls = 1 /\ 5 * ltValue = 4 * ltMax) => Len(ltSent) = 1

(***************************************************************************)
(* The tree of Rc and Weak pointers (src/pointer_weak/src/main.rs).        *)
(***************************************************************************)
Nodes == {"leaf", "branch"}

\* Weak::new(): a Weak that points at no allocation.
NoParent == [kind |-> "weak", to |-> "none"]

\* The reference-counted heap: the counts Rc::strong_count and
\* Rc::weak_count report, the nodes whose value has not been dropped, and
\* the pointer stored in leaf.parent.
RcHeap(strong, weak, live, parent) ==
    [strong |-> strong, weak |-> weak, live |-> live, parent |-> parent]

\* The Rc<Node> handles a node's children field owns.
ChildrenOf(n) == IF n = "branch" THEN {"leaf"} ELSE {}

\* Drop of a Weak handle to n.
DropWeak(h, n) ==
    IF n = "none" THEN h
    ELSE [h EXCEPT !.weak[n] = h.weak[n] - 1]

\* Drop of an Rc handle to n: the strong count goes down, and when it reaches
\* 0 the Node is dropped with its fields, the parent pointer first (declared
\* before children), then the children.
RECURSIVE DropStrong(_, _)
DropField(h, n) ==
    IF n # "leaf" THEN h
    ELSE IF h.parent.kind = "weak"
    THEN [DropWeak(h, h.parent.to) EXCEPT !.parent = NoParent]
    ELSE DropStrong([h EXCEPT !.parent = NoParent], h.parent.to)

DropChildren(h, n) ==
    IF ChildrenOf(n) = {} THEN h
    ELSE DropStrong(h, CHOOSE c \in ChildrenOf(n) : TRUE)

DropStrong(h, n) ==
    LET less == [h EXCEPT !.strong[n] = h.strong[n] - 1]
    IN  IF less.strong[n] > 0 THEN less
        ELSE DropChildren(
                 DropField([less EXCEPT !.live = less.live \ {n}], n), n)

\* Weak::upgrade: Some while the value is alive.
Upgrade(p) ==
    IF p.to \in Nodes /\ rcStrong[p.to] > 0 THEN "Some" ELSE "None"

Counts(n) == [node |-> n, strong |-> rcStrong[n], weak |-> rcWeak[n]]

WeakIdle ==
    /\ wPc = "idle"
    /\ rcStrong = [n \in Nodes |-> 0]
    /\ rcWeak = [n \in Nodes |-> 0]
    /\ rcLive = {}
    /\ leafParent = NoParent
    /\ wUpgrade = "unset"
    /\ wPrinted = <<>>

WeakInit ==
    /\ wPc = "new_leaf"
    /\ rcStrong = [n \in Nodes |-> 0]
    /\ rcWeak = [n \in Nodes |-> 0]
    /\ rcLive = {}
    /\ leafParent = NoParent
    /\ wUpgrade = "unset"
    /\ wPrinted = <<>>

\* let leaf = Rc::new(Node { value: 3, parent: Weak::new(), children: [] })
WeakNewLeaf ==
    /\ wPc = "new_leaf"
    /\ rcStrong' = [rcStrong EXCEPT !["leaf"] = 1]
    /\ rcLive' = rcLive \cup {"leaf"}
    /\ leafParent' = NoParent
    /\ wPc' = "print_leaf_1"
    /\ UNCHANGED <<rcWeak, wUpgrade, wPrinted>>

WeakPrintLeaf1 ==
    /\ wPc = "print_leaf_1"
    /\ wPrinted' = Append(wPrinted, Counts("leaf"))
    /\ wPc' = "new_branch"
    /\ UNCHANGED <<rcStrong, rcWeak, rcLive, leafParent, wUpgrade>>

\* let branch = Rc::new(Node { value: 5, parent: Weak::new(),
\*                             children: [Rc::clone(&leaf)] })
WeakNewBranch ==
    /\ wPc = "new_branch"
    /\ rcStrong' = [rcStrong EXCEPT !["leaf"] = @ + 1, !["branch"] = 1]
    /\ rcLive' = rcLive \cup {"branch"}
    /\ wPc' = "set_parent"
    /\ UNCHANGED <<rcWeak, leafParent, wUpgrade, wPrinted>>

\* A strong back-pointer: *leaf.parent.borrow_mut() = Rc::clone(&branch).
WeakSetParentStrong ==
    /\ wPc = "set_parent"
    /\ rcStrong' = [rcStrong EXCEPT !["branch"] = @ + 1]
    /\ leafParent' = [kind |-> "strong", to |-> "branch"]
    /\ wPc' = "print_branch"
    /\ UNCHANGED <<rcWeak, rcLive, wUpgrade, wPrinted>>

\* *leaf.parent.borrow_mut() = Rc::downgrade(&branch); the Weak::new() that
\* was stored is dropped and owns nothing.
WeakSetParent ==
    /\ wPc = "set_parent"
    /\ rcWeak' = [rcWeak EXCEPT !["branch"] = @ + 1]
    /\ leafParent' = [kind |-> "weak", to |-> "branch"]
    /\ wPc' = "print_branch"
    /\ UNCHANGED <<rcStrong, rcLive, wUpgrade, wPrinted>>

WeakPrintBranch ==
    /\ wPc = "print_branch"
    /\ wPrinted' = Append(wPrinted, Counts("branch"))
    /\ wPc' = "print_leaf_2"
    /\ UNCHANGED <<rcStrong, rcWeak, rcLive, leafParent, wUpgrade>>

WeakPrintLeaf2 ==
    /\ wPc = "print_leaf_2"
    /\ wPrinted' = Append(wPrinted, Counts("leaf"))
    /\ wPc' = "block_end"
    /\ UNCHANGED <<rcStrong, rcWeak, rcLive, leafParent, wUpgrade>>

\* The closing brace of the inner block: branch goes out of scope.
WeakBlockEnd ==
    /\ wPc = "block_end"
    /\ LET h == DropStrong(RcHeap(rcStrong, rcWeak, rcLive, leafParent),
                           "branch")
       IN  /\ rcStrong' = h.strong
           /\ rcWeak' = h.weak
           /\ rcLive' = h.live
           /\ leafParent' = h.parent
    /\ wPc' = "print_parent"
    /\ UNCHANGED <<wUpgrade, wPrinted>>

\* println!("leaf parent = {:?}", leaf.parent.borrow().upgrade()); an Rc
\* that upgrade returns is a temporary, dropped at the end of the statement.
WeakPrintParent ==
    /\ wPc = "print_parent"
    /\ wUpgrade' = Upgrade(leafParent)
    /\ wPc' = "print_leaf_3"
    /\ UNCHANGED <<rcStrong, rcWeak, rcLive, leafParent, wPrinted>>

WeakPrintLeaf3 ==
    /\ wPc = "print_leaf_3"
    /\ wPrinted' = Append(wPrinted, Counts("leaf"))
    /\ wPc' = "main_end"
    /\ UNCHANGED <<rcStrong, rcWeak, rcLive, leafParent, wUpgrade>>

\* The closing brace of main: leaf goes out of scope.
WeakMainEnd ==
    /\ wPc = "main_end"
    /\ LET h == DropStrong(RcHeap(rcStrong, rcWeak, rcLive, leafParent),
                           "leaf")
       IN  /\ rcStrong' = h.strong
           /\ rcWeak' = h.weak
           /\ rcLive' = h.live
           /\ leafParent' = h.parent
    /\ wPc' = "done"
    /\ UNCHANGED <<wUpgrade, wPrinted>>

\* C13: once the inner block has ended branch is dropped (strong count 0)
\* although leaf.parent still holds a Weak to it; upgrade then gives None,
\* leaf has strong count 1 and weak count 0, and when main has ended no node
\* is left alive.
C13_WeakDoesNotKeepAlive ==
    /\ wPc \in {"print_parent", "print_leaf_3", "main_end"} =>
           /\ "branch" \notin rcLive
           /\ rcStrong["branch"] = 0
           /\ leafParent = [kind |-> "weak", to |-> "branch"]
           /\ rcStrong["leaf"] = 1
           /\ rcWeak["leaf"] = 0
    /\ wPc \in {"print_leaf_3", "main_end", "done"} => wUpgrade = "None"
    /\ wPc \in {"main_end", "done"} =>
           wPrinted[Len(wPrinted)] = [node |-> "leaf", strong |-> 1, weak |-> 0]
    /\ wPc = "done" =>
           /\ rcLive = {}
           /\ \A n \in Nodes : rcStrong[n] = 0 /\ rcWeak[n] = 0

C13_Witness ==
    /\ wPc = "done"
    /\ rcLive = {}
    /\ wUpgrade = "None"
    /\ Len(wPrinted) = 4
    /\ wPrinted[2] = [node |-> "branch", strong |-> 1, weak |-> 1]
    /\ wPrinted[3] = [node |-> "leaf", strong |-> 2, weak |-> 0]

(***************************************************************************)
(* The spawned thread joined by its handle (src/threads/src/main.rs, the   *)
(* example under "Waiting for All Threads to Finish Using join Handles").  *)
(***************************************************************************)
\* for i in 1..10 in the spawned thread, for i in 1..5 in the main thread.
SpawnedLines == 9
MainLines == 4

ThreadsIdle ==
    /\ thMainPc = "idle"
    /\ thMainI = 0
    /\ thSpPc = "unspawned"
    /\ thSpI = 0
    /\ thSpPrinted = 0
    /\ thMainPrinted = 0

ThreadsInit ==
    /\ thMainPc = "spawn"
    /\ thMainI = 0
    /\ thSpPc = "unspawned"
    /\ thSpI = 0
    /\ thSpPrinted = 0
    /\ thMainPrinted = 0

\* let handle = thread::spawn(|| { .. });
ThMainSpawn ==
    /\ thMainPc = "spawn"
    /\ thSpPc' = "print"
    /\ thSpI' = 1
    /\ thMainPc' = "print"
    /\ thMainI' = 1
    /\ UNCHANGED <<thSpPrinted, thMainPrinted>>

\* println!("hi number {} from the spawned thread!", i);
ThSpawnedPrint ==
    /\ thSpPc = "print"
    /\ thSpPrinted' = thSpPrinted + 1
    /\ thSpPc' = "sleep"
    /\ UNCHANGED <<thMainPc, thMainI, thSpI, thMainPrinted>>

\* thread::sleep(Duration::from_millis(1)); and the next turn of the loop.
ThSpawnedSleep ==
    /\ thSpPc = "sleep"
    /\ IF thSpI < SpawnedLines
       THEN thSpI' = thSpI + 1 /\ thSpPc' = "print"
       ELSE thSpI' = thSpI /\ thSpPc' = "done"
    /\ UNCHANGED <<thMainPc, thMainI, thSpPrinted, thMainPrinted>>

\* println!("hi number {} from the main thread!", i);
ThMainPrint ==
    /\ thMainPc = "print"
    /\ thMainPrinted' = thMainPrinted + 1
    /\ thMainPc' = "sleep"
    /\ UNCHANGED <<thMainI, thSpPc, thSpI, thSpPrinted>>

ThMainSleep ==
    /\ thMainPc = "sleep"
    /\ IF thMainI < MainLines
       THEN thMainI' = thMainI + 1 /\ thMainPc' = "print"
       ELSE thMainI' = thMainI /\ thMainPc' = "join"
    /\ UNCHANGED <<thSpPc, thSpI, thSpPrinted, thMainPrinted>>

\* The first example of the file, which has no handle and no join: the main
\* thread goes on to its end without waiting.
ThMainNoJoin ==
    /\ thMainPc = "join"
    /\ thMainPc' = "return"
    /\ UNCHANGED <<thMainI, thSpPc, thSpI, thSpPrinted, thMainPrinted>>

\* handle.join().unwrap(): blocks until the spawned thread has terminated.
ThMainJoin ==
    /\ thMainPc = "join"
    /\ thSpPc = "done"
    /\ thMainPc' = "return"
    /\ UNCHANGED <<thMainI, thSpPc, thSpI, thSpPrinted, thMainPrinted>>

\* The main thread completes: the process exits and a spawned thread that is
\* still running is shut down.
ThMainReturn ==
    /\ thMainPc = "return"
    /\ thMainPc' = "exited"
    /\ thSpPc' = IF thSpPc = "done" THEN "done" ELSE "killed"
    /\ UNCHANGED <<thMainI, thSpI, thSpPrinted, thMainPrinted>>

\* C14: the main thread does not end until the spawned thread is finished;
\* when the program has exited the spawned thread has printed its nine
\* lines and the main thread its four, whatever the interleaving.
C14_JoinWaitsForSpawned ==
    /\ thMainPc \in {"return", "exited"} =>
           /\ thSpPc = "done"
           /\ thSpPrinted = SpawnedLines
           /\ thMainPrinted = MainLines
    /\ thSpPc # "killed"

\* The main thread has finished its loop and waits in join while the spawned
\* thread still has lines to print.
C14_WitnessWaiting ==
    /\ thMainPc = "join"
    /\ thMainPrinted = MainLines
    /\ thSpPc = "print"
    /\ thSpPrinted = 0

C14_Witness ==
    /\ thMainPc = "exited"
    /\ thSpPrinted = SpawnedLines
    /\ thMainPrinted = MainLines

(***************************************************************************)
(* Rectangle::can_hold, add_two and greeting (src/adder/src/lib.rs;        *)
(* can_hold also in src/methods/src/main.rs).                              *)
(***************************************************************************)
Sides == 0..MaxSide

Rectangles == [width : Sides, height : Sides]

\* self.width >= other.width && self.height >= other.height
CanHoldNonStrict(self, other) ==
    self.width >= other.width /\ self.height >= other.height

\* self.width > other.width && self.height > other.height
CanHold(self, other) ==
    self.width > other.width /\ self.height > other.height

Returned(n) == [tag |-> "Return", value |-> n]
OverflowPanic == [tag |-> "Panic", value |-> 0]

\* a + 1 in place of a + 2.
AddTwoOffByOne(a, overflowChecks) ==
    IF a <= I32Max - 1 THEN Returned(a + 1)
    ELSE IF overflowChecks THEN OverflowPanic
    ELSE Returned(I32Min)

\* a + 2 on i32.  When the sum does not fit, a build with overflow checks
\* (the default of the dev and test profiles) panics and a build without them
\* (the default of the release profile) wraps around.
AddTwo(a, overflowChecks) ==
    IF a <= I32Max - 2 THEN Returned(a + 2)
    ELSE IF overflowChecks THEN OverflowPanic
    ELSE Returned(I32Min + (a - (I32Max - 1)))

AddInputs ==
    (-AddSpan..AddSpan)
        \cup {I32Min, I32Min + 1, I32Max - 2, I32Max - 1, I32Max}

Hello == <<"H", "e", "l", "l", "o", "!">>

\* String::from("Hello!"): the name is not used.
Greeting(name) == Hello

Carol == <<"C", "a", "r", "o", "l">>

NameChars == {"C", "a", "l", "o"}

Names == StringsUpTo(NameChars, MaxNameLen) \cup {Carol}

NoRectangle == [width |-> 0, height |-> 0]

RectIdle ==
    /\ rPc = "idle"
    /\ rA = NoRectangle
    /\ rB = NoRectangle
    /\ rCalled = {}
    /\ rAB = FALSE
    /\ rBA = FALSE

AddTwoIdle ==
    /\ atPc = "idle"
    /\ atA = 0
    /\ atChecks = TRUE
    /\ atOutcome = Returned(0)

GreetingIdle ==
    /\ grPc = "idle"
    /\ grName = <<>>
    /\ grResult = <<>>

AdderIdle == RectIdle /\ AddTwoIdle /\ GreetingIdle

RectInit ==
    /\ rPc = "ready"
    /\ rA \in Rectangles
    /\ rB \in Rectangles
    /\ rCalled = {}
    /\ rAB = FALSE
    /\ rBA = FALSE

AddTwoInit ==
    /\ atPc = "ready"
    /\ atA \in AddInputs
    /\ atChecks \in BOOLEAN
    /\ atOutcome = Returned(0)

GreetingInit ==
    /\ grPc = "ready"
    /\ grName \in Names
    /\ grResult = <<>>

\* One of the three functions is exercised on arguments of the caller.
AdderInit ==
    \/ RectInit /\ AddTwoIdle /\ GreetingIdle
    \/ RectIdle /\ AddTwoInit /\ GreetingIdle
    \/ RectIdle /\ AddTwoIdle /\ GreetingInit

\* a.can_hold(&b)
CallCanHoldAB ==
    /\ rPc = "ready"
    /\ "ab" \notin rCalled
    /\ rAB' = CanHold(rA, rB)
    /\ rCalled' = rCalled \cup {"ab"}
    /\ UNCHANGED <<rPc, rA, rB, rBA, atPc, atA, atChecks, atOutcome, grPc,
                   grName, grResult>>

\* b.can_hold(&a)
CallCanHoldBA ==
    /\ rPc = "ready"
    /\ "ba" \notin rCalled
    /\ rBA' = CanHold(rB, rA)
    /\ rCalled' = rCalled \cup {"ba"}
    /\ UNCHANGED <<rPc, rA, rB, rAB, atPc, atA, atChecks, atOutcome, grPc,
                   grName, grResult>>

\* add_two(a)
CallAddTwo ==
    /\ atPc = "ready"
    /\ atOutcome' = AddTwo(atA, atChecks)
    /\ atPc' = "called"
    /\ UNCHANGED <<rPc, rA, rB, rCalled, rAB, rBA, atA, atChecks, grPc,
                   grName, grResult>>

\* greeting(name)
CallGreeting ==
    /\ grPc = "ready"
    /\ grResult' = Greeting(grName)
    /\ grPc' = "called"
    /\ UNCHANGED <<rPc, rA, rB, rCalled, rAB, rBA, atPc, atA, atChecks,
                   atOutcome, grName>>

\* C15: can_hold is strict and asymmetric: it is true exactly when width
\* and height of the first rectangle are both strictly greater, never both
\* ways round, and never for a rectangle of equal width or equal height.
C15_CanHoldStrictAsymmetric ==
    /\ "ab" \in rCalled =>
           /\ rAB <=> (rA.width > rB.width /\ rA.height > rB.height)
           /\ (rA.width = rB.width \/ rA.height = rB.height) => ~rAB
    /\ "ba" \in rCalled =>
           /\ rBA <=> (rB.width > rA.width /\ rB.height > rA.height)
           /\ (rA.width = rB.width \/ rA.height = rB.height) => ~rBA
    /\ rCalled = {"ab", "ba"} => ~(rAB /\ rBA)

\* The larger holds the smaller and the smaller does not hold the larger.
C15_Witness ==
    /\ rCalled = {"ab", "ba"}
    /\ rA = [width |-> 3, height |-> 2]
    /\ rB = [width |-> 2, height |-> 1]
    /\ rAB
    /\ ~rBA

\* C16: add_two(a) returns a + 2 for every i32 a, the two largest included.
C16_AddTwoReturnsSum ==
    atPc = "called" =>
        /\ atOutcome.tag = "Return"
        /\ atOutcome.value > atA
        /\ atOutcome.value - atA = 2

\* C16 within the range of i32: add_two(a) returns a + 2 when a + 2 fits, that
\* is up to i32::MAX - 2; for the two largest values the call panics in a
\* build with overflow checks and returns the wrapped sum (i32::MIN and
\* i32::MIN + 1) in a build without.
C16_AddTwoWithinRange ==
    atPc = "called" =>
        /\ atA <= I32Max - 2 => atOutcome = Returned(atA + 2)
        /\ (atA > I32Max - 2 /\ atChecks) => atOutcome.tag = "Panic"
        /\ (atA = I32Max - 1 /\ ~atChecks) => atOutcome = Returned(I32Min)
        /\ (atA = I32Max /\ ~atChecks) => atOutcome = Returned(I32Min + 1)

C16_Witness ==
    /\ atPc = "called"
    /\ atA = I32Max
    /\ atChecks
    /\ atOutcome.tag = "Panic"

C16_WitnessWrapped ==
    /\ atPc = "called"
    /\ atA = I32Max - 1
    /\ ~atChecks
    /\ atOutcome = Returned(I32Min)

\* C17: the string greeting(name) returns contains name.
C17_GreetingContainsName ==
    grPc = "called" => Contains(grResult, grName)

(***************************************************************************)
(* The specifications, one per program.                                    *)
(***************************************************************************)
searchOthers == <<grepVars, mutexVars, mpscVars, guessVars, gameVars,
                  trackerVars, weakVars, threadsVars, adderVars>>
grepOthers == <<searchVars, mutexVars, mpscVars, guessVars, gameVars,
                trackerVars, weakVars, threadsVars, adderVars>>
mutexOthers == <<searchVars, grepVars, mpscVars, guessVars, gameVars,
                 trackerVars, weakVars, threadsVars, adderVars>>
mpscOthers == <<searchVars, grepVars, mutexVars, guessVars, gameVars,
                trackerVars, weakVars, threadsVars, adderVars>>
guessOthers == <<searchVars, grepVars, mutexVars, mpscVars, gameVars,
                 trackerVars, weakVars, threadsVars, adderVars>>
gameOthers == <<searchVars, grepVars, mutexVars, mpscVars, guessVars,
                trackerVars, weakVars, threadsVars, adderVars>>
trackerOthers == <<searchVars, grepVars, mutexVars, mpscVars, guessVars,
                   gameVars, weakVars, threadsVars, adderVars>>
weakOthers == <<searchVars, grepVars, mutexVars, mpscVars, guessVars,
                gameVars, trackerVars, threadsVars, adderVars>>
threadsOthers == <<searchVars, grepVars, mutexVars, mpscVars, guessVars,
                   gameVars, trackerVars, weakVars, adderVars>>
adderOthers == <<searchVars, grepVars, mutexVars, mpscVars, guessVars,
                 gameVars, trackerVars, weakVars, threadsVars>>

InitSearch == SearchInit /\ GrepIdle /\ MutexIdle /\ MpscIdle /\ GuessIdle
    /\ GameIdle /\ TrackerIdle /\ WeakIdle /\ ThreadsIdle /\ AdderIdle

NextSearch ==
    \/ CallSearch /\ UNCHANGED searchOthers
    \/ CallSearchCaseInsensitive /\ UNCHANGED searchOthers

SpecSearch == InitSearch /\ [][NextSearch]_vars

InitGrep == GrepInit /\ SearchIdle /\ MutexIdle /\ MpscIdle /\ GuessIdle
    /\ GameIdle /\ TrackerIdle /\ WeakIdle /\ ThreadsIdle /\ AdderIdle

NextGrep ==
    \/ MainConfigNew /\ UNCHANGED grepOthers
    \/ MainUnwrapOrElse /\ UNCHANGED grepOthers
    \/ Run /\ UNCHANGED grepOthers
    \/ MainIfLet /\ UNCHANGED grepOthers

SpecGrep == InitGrep /\ [][NextGrep]_vars

InitMutex == MutexInit /\ SearchIdle /\ GrepIdle /\ MpscIdle /\ GuessIdle
    /\ GameIdle /\ TrackerIdle /\ WeakIdle /\ ThreadsIdle /\ AdderIdle

NextMutex ==
    \/ MainSpawn /\ UNCHANGED mutexOthers
    \/ \E t \in Threads : ThreadLock(t) /\ UNCHANGED mutexOthers
    \/ \E t \in Threads : ThreadRead(t) /\ UNCHANGED mutexOthers
    \/ \E t \in Threads : ThreadWrite(t) /\ UNCHANGED mutexOthers
    \/ \E t \in Threads : ThreadUnlock(t) /\ UNCHANGED mutexOthers
    \/ MainJoin /\ UNCHANGED mutexOthers
    \/ MainLock /\ UNCHANGED mutexOthers
    \/ MainPrint /\ UNCHANGED mutexOthers

SpecMutex == InitMutex /\ [][NextMutex]_vars

\* The steps of the main thread of the counter program.
MutexMainNext ==
    \/ MainSpawn /\ UNCHANGED mutexOthers
    \/ MainJoin /\ UNCHANGED mutexOthers
    \/ MainLock /\ UNCHANGED mutexOthers
    \/ MainPrint /\ UNCHANGED mutexOthers

\* The steps of worker thread t.
MutexThreadNext(t) ==
    \/ ThreadLock(t) /\ UNCHANGED mutexOthers
    \/ ThreadRead(t) /\ UNCHANGED mutexOthers
    \/ ThreadWrite(t) /\ UNCHANGED mutexOthers
    \/ ThreadUnlock(t) /\ UNCHANGED mutexOthers

\* The scheduler runs every thread that can take a step: a thread that stays
\* runnable is eventually run.
SpecMutexFair ==
    /\ InitMutex
    /\ [][NextMutex]_vars
    /\ WF_vars(MutexMainNext)
    /\ \A t \in Threads : WF_vars(MutexThreadNext(t))

InitMpsc == MpscInit /\ SearchIdle /\ GrepIdle /\ MutexIdle /\ GuessIdle
    /\ GameIdle /\ TrackerIdle /\ WeakIdle /\ ThreadsIdle /\ AdderIdle

\* The steps of producer p.
ProducerNext(p) ==
    \/ ProducerSend(p) /\ UNCHANGED mpscOthers
    \/ ProducerSleep(p) /\ UNCHANGED mpscOthers
    \/ ProducerFinish(p) /\ UNCHANGED mpscOthers

\* The steps of the main thread.
MpscMainNext ==
    \/ MpscSpawnFirst /\ UNCHANGED mpscOthers
    \/ MpscSpawnSecond /\ UNCHANGED mpscOthers
    \/ MpscRecv /\ UNCHANGED mpscOthers
    \/ MpscLoopEnd /\ UNCHANGED mpscOthers

NextMpsc ==
    \/ MpscMainNext
    \/ \E p \in Producers : ProducerNext(p)

SpecMpsc == InitMpsc /\ [][NextMpsc]_vars

\* The scheduler runs every thread that can take a step: a thread that stays
\* runnable is eventually run.
SpecMpscFair ==
    /\ InitMpsc
    /\ [][NextMpsc]_vars
    /\ WF_vars(MpscMainNext)
    /\ \A p \in Producers : WF_vars(ProducerNext(p))

InitGuess == GuessInit /\ SearchIdle /\ GrepIdle /\ MutexIdle /\ MpscIdle
    /\ GameIdle /\ TrackerIdle /\ WeakIdle /\ ThreadsIdle /\ AdderIdle

NextGuess ==
    \/ CallGuessNewAdder /\ UNCHANGED guessOthers
    \/ CallGuessNewPanicOrNot /\ UNCHANGED guessOthers

SpecGuess == InitGuess /\ [][NextGuess]_vars

InitGame ==
    GameInit /\ SearchIdle /\ GrepIdle /\ MutexIdle /\ MpscIdle /\ GuessIdle
    /\ TrackerIdle /\ WeakIdle /\ ThreadsIdle /\ AdderIdle

NextGame ==
    \/ GameStart /\ UNCHANGED gameOthers
    \/ GamePrompt /\ UNCHANGED gameOthers
    \/ GameReadLine /\ UNCHANGED gameOthers
    \/ GameParse /\ UNCHANGED gameOthers
    \/ GameCompare /\ UNCHANGED gameOthers

SpecGame == InitGame /\ [][NextGame]_vars

InitTracker ==
    TrackerInit /\ SearchIdle /\ GrepIdle /\ MutexIdle /\ MpscIdle /\ GuessIdle
    /\ GameIdle /\ WeakIdle /\ ThreadsIdle /\ AdderIdle

NextTracker ==
    \/ \E value \in Values : SetValue(value) /\ UNCHANGED trackerOthers

SpecTracker == InitTracker /\ [][NextTracker]_vars

\* The two example programs without input: one of them is run.
InitExamples ==
    ((WeakInit /\ ThreadsIdle) \/ (WeakIdle /\ ThreadsInit))
    /\ SearchIdle /\ GrepIdle /\ MutexIdle /\ MpscIdle /\ GuessIdle
    /\ GameIdle /\ TrackerIdle /\ AdderIdle

NextExamples ==
    \/ WeakNewLeaf /\ UNCHANGED weakOthers
    \/ WeakPrintLeaf1 /\ UNCHANGED weakOthers
    \/ WeakNewBranch /\ UNCHANGED weakOthers
    \/ WeakSetParent /\ UNCHANGED weakOthers
    \/ WeakPrintBranch /\ UNCHANGED weakOthers
    \/ WeakPrintLeaf2 /\ UNCHANGED weakOthers
    \/ WeakBlockEnd /\ UNCHANGED weakOthers
    \/ WeakPrintParent /\ UNCHANGED weakOthers
    \/ WeakPrintLeaf3 /\ UNCHANGED weakOthers
    \/ WeakMainEnd /\ UNCHANGED weakOthers
    \/ ThMainSpawn /\ UNCHANGED threadsOthers
    \/ ThSpawnedPrint /\ UNCHANGED threadsOthers
    \/ ThSpawnedSleep /\ UNCHANGED threadsOthers
    \/ ThMainPrint /\ UNCHANGED threadsOthers
    \/ ThMainSleep /\ UNCHANGED threadsOthers
    \/ ThMainJoin /\ UNCHANGED threadsOthers
    \/ ThMainReturn /\ UNCHANGED threadsOthers

SpecExamples == InitExamples /\ [][NextExamples]_vars

InitAdder ==
    AdderInit /\ SearchIdle /\ GrepIdle /\ MutexIdle /\ MpscIdle /\ GuessIdle
    /\ GameIdle /\ TrackerIdle /\ WeakIdle /\ ThreadsIdle

NextAdder ==
    \/ CallCanHoldAB /\ UNCHANGED adderOthers
    \/ CallCanHoldBA /\ UNCHANGED adderOthers
    \/ CallAddTwo /\ UNCHANGED adderOthers
    \/ CallGreeting /\ UNCHANGED adderOthers

SpecAdder == InitAdder /\ [][NextAdder]_vars

=============================================================================
